---- MODULE Spec2Model ----
(***************************************************************************)
(* A model of the CVRP genetic algorithm (genetic_algorithm.py and         *)
(* genetic_algorithm_helper.py).                                           *)
(*                                                                         *)
(* A chromosome is a sequence of number_of_jobs + number_of_vehicles       *)
(* integers: the job part (job ids) followed by the vehicle part (route    *)
(* lengths).  Python indices are 0-based and TLA+ sequences 1-based: the   *)
(* operators below take Python's 0-based indices and add 1 where they      *)
(* index a sequence.                                                       *)
(***************************************************************************)
EXTENDS Integers, Sequences, FiniteSets

VARIABLES
    vehicles,       \* self.vehicles, in insertion order: <<[id, start_index, capacity]>>
    jobs,           \* self.jobs: job id -> [location_index, delivery, service]
    population,     \* self.population: sequence of chromosomes
    fitness,        \* self.fitness: sequence of costs, <<>> before the first evaluation
    parents,        \* self.parents
    offspring,      \* self.offspring
    generation,     \* self.generation
    random_vehicle, \* the vehicle index drawn for a single construct_offspring call
    best_solution,  \* run()'s best_solution, <<>> until the loop has ended
    json_data,      \* the dictionary handed to JsonParser.write_json_data
    pc              \* the position of run()

vars == <<vehicles, jobs, population, fitness, parents, offspring, generation,
          random_vehicle, best_solution, json_data, pc>>

(***************************************************************************)
(* Bounds of the model.  The source runs 10 chromosomes for 100            *)
(* generations; the model runs the same loop with smaller numbers.         *)
(***************************************************************************)
chromosomes == 3
generations == 2
\* Bounds of the single-call crossover specification.
MaxCrossJobs == 3
MaxCrossVehicles == 3

\* self.mating_pool_size: "Must be greater than half of chromosomes"; the
\* smallest such size, which is the source's 6 for its 10 chromosomes.
mating_pool_size == (chromosomes \div 2) + 1
offspring_size == chromosomes - mating_pool_size

number_of_vehicles == Len(vehicles)
number_of_jobs == Cardinality(DOMAIN jobs)
genes == number_of_vehicles + number_of_jobs

(***************************************************************************)
(* Python list helpers.                                                    *)
(***************************************************************************)
Min2(a, b) == IF a < b THEN a ELSE b
Abs(a) == IF a < 0 THEN -a ELSE a

RECURSIVE SumSeq(_)
\* sum(list)
SumSeq(s) == IF s = <<>> THEN 0 ELSE Head(s) + SumSeq(Tail(s))

\* list[a:b] for 0 <= a, b: the slice is clamped to the list
Slice(s, a, b) ==
    LET lo == Min2(a, Len(s))
        hi == Min2(b, Len(s))
    IN IF lo >= hi THEN <<>> ELSE SubSeq(s, lo + 1, hi)

\* list.insert(index, x), index >= 0: an index past the end appends
ListInsert(s, index, x) ==
    LET at == Min2(index, Len(s))
    IN SubSeq(s, 1, at) \o <<x>> \o SubSeq(s, at + 1, Len(s))

\* list[::-1]
Reverse(s) == [k \in 1..Len(s) |-> s[Len(s) + 1 - k]]

\* x in list
Elems(s) == {s[k] : k \in 1..Len(s)}

\* list.index(x), 0-based, when x is in the list
ListIndex(s, x) == (CHOOSE k \in 1..Len(s) : s[k] = x /\ \A m \in 1..(k - 1) : s[m] # x) - 1

RECURSIVE Perms(_)
\* random.sample(ids, len(ids)): every ordering of the ids
Perms(S) ==
    IF S = {} THEN {<<>>}
    ELSE UNION {{<<x>> \o p : p \in Perms(S \ {x})} : x \in S}

(***************************************************************************)
(* genetic_algorithm_helper.py                                             *)
(***************************************************************************)
RECURSIVE vehicle_part_last_gene_random(_, _)
\* Mutant of create_random_vehicle_part: the last gene is drawn like the
\* others instead of being what is left.
vehicle_part_last_gene_random(number_of_vehicle, sum_of_jobs) ==
    IF number_of_vehicle = 0 THEN {<<>>}
    ELSE UNION {{<<gene>> \o rest :
                    rest \in vehicle_part_last_gene_random(number_of_vehicle - 1, sum_of_jobs - gene)} :
                gene \in 0..sum_of_jobs}

RECURSIVE create_random_vehicle_part(_, _)
\* The set of lists the generator can yield: every gene but the last is
\* random.randint(0, sum_of_jobs) and is taken off sum_of_jobs; the last
\* gene is what is left.  No gene at all for number_of_vehicle = 0.
create_random_vehicle_part(number_of_vehicle, sum_of_jobs) ==
    IF number_of_vehicle = 0 THEN {<<>>}
    ELSE IF number_of_vehicle = 1 THEN {<<sum_of_jobs>>}
    ELSE UNION {{<<gene>> \o rest :
                    rest \in create_random_vehicle_part(number_of_vehicle - 1, sum_of_jobs - gene)} :
                gene \in 0..sum_of_jobs}

map_chromosome_to_routes(chromosome, n_jobs) ==
    LET chromosome_vehicle_part == Slice(chromosome, n_jobs, Len(chromosome))
    IN [vehicle \in 1..Len(chromosome_vehicle_part) |->
           LET start_gene == SumSeq(Slice(chromosome_vehicle_part, 0, vehicle - 1))
               end_gene == start_gene + chromosome_vehicle_part[vehicle]
           IN Slice(chromosome, start_gene, end_gene)]

\* The cost matrix of the problem instance: locations on a line, which is
\* [[0,1,2],[1,0,1],[2,1,0]] on the first three locations.
Locations == 0..(MaxCrossJobs + MaxCrossVehicles)
matrix == [a \in Locations |-> [b \in Locations |-> Abs(a - b)]]

RECURSIVE route_cost_from(_, _, _, _, _)
route_cost_from(route_locations, route, jobs_, cost_matrix, node) ==
    IF node > Len(route_locations) - 1 THEN 0
    ELSE cost_matrix[route_locations[node]][route_locations[node + 1]]
         + jobs_[route[node]].service
         + route_cost_from(route_locations, route, jobs_, cost_matrix, node + 1)

\* Mutant of calculate_route_cost: the service cost is left out.
route_cost_travel_only(route_locations, route, jobs_, cost_matrix) ==
    SumSeq([node \in 1..(Len(route_locations) - 1) |->
               cost_matrix[route_locations[node]][route_locations[node + 1]]])

calculate_route_cost(route_locations, route, jobs_, cost_matrix) ==
    route_cost_from(route_locations, route, jobs_, cost_matrix, 1)

map_route_to_route_locations(vehicle_location, route, jobs_) ==
    <<vehicle_location>> \o [k \in 1..Len(route) |-> jobs_[route[k]].location_index]

\* list(vehicles)[i]: the id of the i-th vehicle (0-based) in insertion order
vehicle_id_at(vehicles_, i) == vehicles_[i + 1].id

\* vehicles[vehicle_id]
vehicle_of(vehicles_, vehicle_id) ==
    vehicles_[CHOOSE k \in 1..Len(vehicles_) : vehicles_[k].id = vehicle_id]

map_chromosome_to_json_dictionary(chromosome, n_jobs, vehicles_, cost_matrix, jobs_) ==
    LET routes == map_chromosome_to_routes(chromosome[1], n_jobs)
        route_costs == [k \in 1..Len(routes) |->
            LET route == routes[k]
                vehicle_id == vehicle_id_at(vehicles_, ListIndex(routes, route))
                vehicle_location == vehicle_of(vehicles_, vehicle_id).start_index
                route_locations == map_route_to_route_locations(vehicle_location, route, jobs_)
            IN calculate_route_cost(route_locations, route, jobs_, cost_matrix)]
    IN [total_delivery_duration |-> SumSeq(route_costs),
        routes |-> [key \in {vehicles_[k].id : k \in 1..Min2(Len(vehicles_), Len(routes))} |->
                       LET k == CHOOSE m \in 1..Len(vehicles_) : vehicles_[m].id = key
                       IN [jobs |-> routes[k], delivery_duration |-> route_costs[k]]]]

RECURSIVE insert_all(_, _, _)
\* for gene in genes_: offspring.insert(start_gene, gene)
insert_all(offspring_, start_gene, genes_) ==
    IF genes_ = <<>> THEN offspring_
    ELSE insert_all(ListInsert(offspring_, start_gene, Head(genes_)), start_gene, Tail(genes_))

\* Mutant of construct_offspring: parent1's genes that are in parent2's
\* segment are not taken out before the segment is inserted.
construct_offspring_unfiltered(parent1, parent_vehicle_part, parent2, parent2_vehicle_part, random_vehicle_, n_jobs) ==
    LET start_gene == SumSeq(Slice(parent2_vehicle_part, 0, random_vehicle_))
        end_gene == start_gene + parent2_vehicle_part[random_vehicle_ + 1]
        segment == Slice(parent2, start_gene, end_gene)
        job_part == insert_all(Slice(parent1, 0, n_jobs), start_gene, Reverse(segment))
    IN {job_part \o ListInsert(offspring_vehicle_part, random_vehicle_,
                               parent2_vehicle_part[random_vehicle_ + 1]) :
           offspring_vehicle_part \in
               create_random_vehicle_part(Len(parent_vehicle_part) - 1,
                                          n_jobs - parent2_vehicle_part[random_vehicle_ + 1])}

\* The set of offspring one call can return: one per outcome of
\* create_random_vehicle_part.
construct_offspring(parent1, parent_vehicle_part, parent2, parent2_vehicle_part, random_vehicle_, n_jobs) ==
    LET \* parent_vehicle_part_copy.pop(random_vehicle)
        parent_vehicle_part_copy ==
            SubSeq(parent_vehicle_part, 1, random_vehicle_)
            \o SubSeq(parent_vehicle_part, random_vehicle_ + 2, Len(parent_vehicle_part))
        start_gene == SumSeq(Slice(parent2_vehicle_part, 0, random_vehicle_))
        end_gene == start_gene + parent2_vehicle_part[random_vehicle_ + 1]
        segment == Slice(parent2, start_gene, end_gene)
        skeleton == SelectSeq(Slice(parent1, 0, n_jobs), LAMBDA gene : gene \notin Elems(segment))
        job_part == insert_all(skeleton, start_gene, Reverse(segment))
    IN {job_part \o ListInsert(offspring_vehicle_part, random_vehicle_,
                               parent2_vehicle_part[random_vehicle_ + 1]) :
           offspring_vehicle_part \in
               create_random_vehicle_part(Len(parent_vehicle_part_copy),
                                          n_jobs - parent2_vehicle_part[random_vehicle_ + 1])}

(***************************************************************************)
(* genetic_algorithm.py: GeneticAlgorithm                                  *)
(***************************************************************************)
RECURSIVE penalty_from(_, _, _, _)
penalty_from(vehicle_capacity, route, jobs_, route_total_delivery) ==
    IF route = <<>> THEN 0
    ELSE LET total == route_total_delivery + jobs_[Head(route)].delivery
         IN (IF total > vehicle_capacity THEN 1000 ELSE 0)
            + penalty_from(vehicle_capacity, Tail(route), jobs_, total)

__penalty(vehicles_, jobs_, vehicle_id, route) ==
    penalty_from(vehicle_of(vehicles_, vehicle_id).capacity, route, jobs_, 0)

\* The body of __fitness's loop over the vehicles: the cost vehicle i
\* (0-based) adds to the chromosome's cost.
route_final_cost(vehicles_, jobs_, chromosome, i) ==
    LET routes == map_chromosome_to_routes(chromosome, Cardinality(DOMAIN jobs_))
    IN IF chromosome[Cardinality(DOMAIN jobs_) + i + 1] > 0
       THEN LET vehicle_id == vehicle_id_at(vehicles_, i)
                vehicle_location == vehicle_of(vehicles_, vehicle_id).start_index
                route_locations == map_route_to_route_locations(vehicle_location, routes[i + 1], jobs_)
                route_cost == calculate_route_cost(route_locations, routes[i + 1], jobs_, matrix)
                penalty == __penalty(vehicles_, jobs_, vehicle_id, routes[i + 1])
            IN route_cost + penalty * route_cost
       ELSE 0

chromosome_cost(vehicles_, jobs_, chromosome) ==
    SumSeq([k \in 1..Len(vehicles_) |-> route_final_cost(vehicles_, jobs_, chromosome, k - 1)])

__fitness(chromosomes_) ==
    [k \in 1..Len(chromosomes_) |-> chromosome_cost(vehicles, jobs, chromosomes_[k])]

RECURSIVE sorted_insert_descending(_, _)
\* Mutant of sorted_insert: the comparison is turned around, which sorts
\* the costliest chromosome first.
sorted_insert_descending(sorted_pairs, pair) ==
    IF sorted_pairs = <<>> THEN <<pair>>
    ELSE IF Head(sorted_pairs)[1] >= pair[1]
         THEN <<Head(sorted_pairs)>> \o sorted_insert_descending(Tail(sorted_pairs), pair)
         ELSE <<pair>> \o sorted_pairs

RECURSIVE sorted_insert(_, _)
\* Insert a (fitness, chromosome) pair behind every pair whose key is not larger.
sorted_insert(sorted_pairs, pair) ==
    IF sorted_pairs = <<>> THEN <<pair>>
    ELSE IF Head(sorted_pairs)[1] <= pair[1]
         THEN <<Head(sorted_pairs)>> \o sorted_insert(Tail(sorted_pairs), pair)
         ELSE <<pair>> \o sorted_pairs

RECURSIVE sorted_by_key(_)
\* sorted(pairs, key=lambda x: x[0]): ascending and stable
sorted_by_key(pairs) ==
    IF pairs = <<>> THEN <<>>
    ELSE sorted_insert(sorted_by_key(SubSeq(pairs, 1, Len(pairs) - 1)), pairs[Len(pairs)])

\* Mutant of selected_parents: the population is truncated without being
\* sorted.
selected_parents_unsorted(fitness_, population_) ==
    Slice(population_, 0, mating_pool_size)

\* The parent pool __selection builds.
selected_parents(fitness_, population_) ==
    LET zipped == [k \in 1..Min2(Len(fitness_), Len(population_)) |-> <<fitness_[k], population_[k]>>]
        ranked == sorted_by_key(zipped)
        all == [k \in 1..Len(ranked) |-> ranked[k][2]]
    IN Slice(all, 0, mating_pool_size)

(***************************************************************************)
(* Problem instances: the parsed input.json.  Job k has id 100 + k, lies   *)
(* at location k and asks for a delivery of 4; vehicle i has id i and      *)
(* starts at location i - 1.  With one vehicle and two jobs, capacity 10   *)
(* and no service time give Scenario A, capacity 3 gives Scenario B.       *)
(***************************************************************************)
Profiles ==
    {[capacity |-> 10, service |-> 0],
     [capacity |-> 3, service |-> 0],
     [capacity |-> 5, service |-> 2]}

job_id(k) == 100 + k

instance_jobs(n_jobs, profile) ==
    [id \in {job_id(k) : k \in 1..n_jobs} |->
        [location_index |-> id - 100, delivery |-> 4, service |-> profile.service]]

instance_vehicles(n_vehicles, profile) ==
    [i \in 1..n_vehicles |-> [id |-> i, start_index |-> i - 1, capacity |-> profile.capacity]]

\* The chromosomes __initial_population can put into a slot.
initial_chromosomes(n_jobs, n_vehicles) ==
    {job_part \o vehicle_part :
        job_part \in Perms({job_id(k) : k \in 1..n_jobs}),
        vehicle_part \in create_random_vehicle_part(n_vehicles, n_jobs)}

\* The state once GeneticAlgorithm(data) is constructed for an instance.
constructed(n_jobs, n_vehicles, profile) ==
    /\ jobs = instance_jobs(n_jobs, profile)
    /\ vehicles = instance_vehicles(n_vehicles, profile)
    /\ population \in [1..chromosomes -> initial_chromosomes(n_jobs, n_vehicles)]
    /\ fitness = <<>>
    /\ parents = <<>>
    /\ offspring = <<>>
    /\ generation = 0
    /\ random_vehicle = -1
    /\ best_solution = <<>>
    /\ json_data = <<>>
    /\ pc = "fitness"

\* The <<job count, vehicle count>> of the instances the run is given.
Shapes == {<<1, 1>>, <<1, 2>>, <<2, 1>>, <<2, 2>>, <<3, 1>>}

Init ==
    \E shape \in Shapes, profile \in Profiles :
        constructed(shape[1], shape[2], profile)

(***************************************************************************)
(* run(): one action per step of the generation loop.                      *)
(***************************************************************************)
run_fitness ==
    /\ pc = "fitness"
    /\ fitness' = __fitness(population)
    /\ pc' = "selection"
    /\ UNCHANGED <<vehicles, jobs, population, parents, offspring, generation,
                   random_vehicle, best_solution, json_data>>

__selection ==
    /\ pc = "selection"
    /\ parents' = selected_parents(fitness, population)
    /\ pc' = "crossover"
    /\ UNCHANGED <<vehicles, jobs, population, fitness, offspring, generation,
                   random_vehicle, best_solution, json_data>>

\* The chromosomes offspring row i (0-based) can become.
crossover_row(parents_, i, n_jobs) ==
    LET parent1 == parents_[i + 1]
        parent2 == parents_[i + 2]
        parent1_vehicle_part == Slice(parent1, n_jobs, Len(parent1))
        parent2_vehicle_part == Slice(parent2, n_jobs, Len(parent2))
    IN UNION {construct_offspring(parent1, parent1_vehicle_part, parent2, parent2_vehicle_part,
                                  r, n_jobs) :
                 r \in 0..(Len(parent1_vehicle_part) - 1)}

__crossover ==
    /\ pc = "crossover"
    /\ offspring' \in
         {rows \in [1..offspring_size ->
                       UNION {crossover_row(parents, i, number_of_jobs) : i \in 0..(offspring_size - 1)}] :
             \A k \in 1..offspring_size : rows[k] \in crossover_row(parents, k - 1, number_of_jobs)}
    /\ pc' = "mutation"
    /\ UNCHANGED <<vehicles, jobs, population, fitness, parents, generation,
                   random_vehicle, best_solution, json_data>>

\* random.random() in hundredths: a draw below both rates, one between
\* them and one above both.
RandomDraws == {5, 50, 95}

\* mutation_rate in hundredths: fitness >= np.average(self.fitness)
mutation_rate(offspring_fitness, fitness_) ==
    IF offspring_fitness * Len(fitness_) >= SumSeq(fitness_) THEN 90 ELSE 10

\* Mutant of swap: the two genes are assigned back to their own positions.
swap_in_place(chromosome, p, q) ==
    [chromosome EXCEPT ![p + 1] = chromosome[p + 1], ![q + 1] = chromosome[q + 1]]

swap(chromosome, p, q) ==
    [chromosome EXCEPT ![p + 1] = chromosome[q + 1], ![q + 1] = chromosome[p + 1]]

\* What the body of __mutation's loop can do to one offspring when the draw
\* exceeds the rate: ok is FALSE when random.sample raises ValueError.
mutate(chromosome, n_jobs) ==
    UNION {LET random_vehicle_index == n_jobs + r
               long == chromosome[random_vehicle_index + 1] > 1
               start_gene == IF long THEN SumSeq(Slice(chromosome, n_jobs, random_vehicle_index))
                             ELSE 0
               end_gene == IF long THEN start_gene + chromosome[random_vehicle_index + 1]
                           ELSE n_jobs
           IN IF end_gene - start_gene < 2
              THEN {[ok |-> FALSE, chromosome |-> chromosome]}
              ELSE {[ok |-> TRUE, chromosome |-> swap(chromosome, points[1], points[2])] :
                       points \in {pt \in (start_gene..(end_gene - 1)) \X (start_gene..(end_gene - 1)) :
                                      pt[1] # pt[2]}} :
           r \in 0..(Len(chromosome) - n_jobs - 1)}

mutation_row(chromosome, fitness_, n_jobs) ==
    UNION {IF draw > mutation_rate(__fitness(<<chromosome>>)[1], fitness_)
           THEN mutate(chromosome, n_jobs)
           ELSE {[ok |-> TRUE, chromosome |-> chromosome]} :
           draw \in RandomDraws}

RECURSIVE mutation_from(_, _, _, _)
\* The loop of __mutation from row i (1-based) on: it stops at the first
\* row whose mutation raises.
mutation_from(offspring_, i, fitness_, n_jobs) ==
    IF i > Len(offspring_) THEN {[ok |-> TRUE, offspring |-> offspring_]}
    ELSE UNION {IF row.ok
                THEN mutation_from([offspring_ EXCEPT ![i] = row.chromosome], i + 1, fitness_, n_jobs)
                ELSE {[ok |-> FALSE, offspring |-> offspring_]} :
                row \in mutation_row(offspring_[i], fitness_, n_jobs)}

__mutation ==
    /\ pc = "mutation"
    /\ \E outcome \in mutation_from(offspring, 1, fitness, number_of_jobs) :
          /\ outcome.ok
          /\ offspring' = outcome.offspring
    /\ pc' = "update"
    /\ UNCHANGED <<vehicles, jobs, population, fitness, parents, generation,
                   random_vehicle, best_solution, json_data>>

\* random.sample(range(start_gene, end_gene), 2) raises ValueError: run() ends.
mutation_raises ==
    /\ pc = "mutation"
    /\ \E outcome \in mutation_from(offspring, 1, fitness, number_of_jobs) :
          /\ ~outcome.ok
          /\ offspring' = outcome.offspring
    /\ pc' = "failed"
    /\ UNCHANGED <<vehicles, jobs, population, fitness, parents, generation,
                   random_vehicle, best_solution, json_data>>

\* Mutant of updated_population: the offspring take the first slots and
\* the parents the slots behind them.
updated_population_offspring_first(population_, parents_, offspring_) ==
    [k \in 1..Len(population_) |->
        IF k <= Len(offspring_) THEN offspring_[k] ELSE parents_[k - Len(offspring_)]]

\* self.population[:len(self.parents), :] = self.parents
\* self.population[len(self.parents):, :] = self.offspring
updated_population(population_, parents_, offspring_) ==
    [k \in 1..Len(population_) |->
        IF k <= Len(parents_) THEN parents_[k] ELSE offspring_[k - Len(parents_)]]

run_update_population ==
    /\ pc = "update"
    /\ population' = updated_population(population, parents, offspring)
    /\ IF generation + 1 < generations
       THEN generation' = generation + 1 /\ pc' = "fitness"
       ELSE generation' = generation /\ pc' = "output"
    /\ UNCHANGED <<vehicles, jobs, fitness, parents, offspring,
                   random_vehicle, best_solution, json_data>>

run_output ==
    /\ pc = "output"
    /\ best_solution' = <<population[1]>>
    /\ json_data' = map_chromosome_to_json_dictionary(<<population[1]>>, number_of_jobs, vehicles, matrix, jobs)
    /\ pc' = "done"
    /\ UNCHANGED <<vehicles, jobs, population, fitness, parents, offspring, generation,
                   random_vehicle>>

Next ==
    \/ run_fitness
    \/ __selection
    \/ __crossover
    \/ __mutation
    \/ mutation_raises
    \/ run_update_population
    \/ run_output

Spec == Init /\ [][Next]_vars

(***************************************************************************)
(* A single call of construct_offspring, as __crossover makes it, on any   *)
(* pair of valid parents; the vehicle index drawn is kept in               *)
(* random_vehicle.                                                         *)
(***************************************************************************)
CrossInit ==
    \E n_jobs \in 1..MaxCrossJobs, n_vehicles \in 1..MaxCrossVehicles :
        /\ jobs = instance_jobs(n_jobs, [capacity |-> 10, service |-> 0])
        /\ vehicles = instance_vehicles(n_vehicles, [capacity |-> 10, service |-> 0])
        /\ parents \in [1..2 -> initial_chromosomes(n_jobs, n_vehicles)]
        /\ population = parents
        /\ fitness = <<>>
        /\ offspring = <<>>
        /\ generation = 0
        /\ random_vehicle = -1
        /\ best_solution = <<>>
        /\ json_data = <<>>
        /\ pc = "crossover"

crossover_call ==
    /\ pc = "crossover"
    /\ \E r \in 0..(number_of_vehicles - 1) :
          /\ random_vehicle' = r
          /\ \E child \in construct_offspring(parents[1], Slice(parents[1], number_of_jobs, genes),
                                              parents[2], Slice(parents[2], number_of_jobs, genes),
                                              r, number_of_jobs) :
                offspring' = <<child>>
    /\ pc' = "mutation"
    /\ UNCHANGED <<vehicles, jobs, population, fitness, parents, generation,
                   best_solution, json_data>>

CrossNext == crossover_call

CrossSpec == CrossInit /\ [][CrossNext]_vars

(***************************************************************************)
(* Scenario A with a generation count as large as needed: the loop of      *)
(* run() never leaves for the output (the model stops counting at          *)
(* generations), and the random draws are fair: a mutation that changes an *)
(* offspring, possible again and again, eventually happens.                *)
(***************************************************************************)
ScenarioA == [capacity |-> 10, service |-> 0]

LiveInit == constructed(2, 1, ScenarioA)

run_next_generation ==
    /\ pc = "update"
    /\ population' = updated_population(population, parents, offspring)
    /\ generation' = IF generation < generations THEN generation + 1 ELSE generation
    /\ pc' = "fitness"
    /\ UNCHANGED <<vehicles, jobs, fitness, parents, offspring,
                   random_vehicle, best_solution, json_data>>

LiveNext ==
    \/ run_fitness
    \/ __selection
    \/ __crossover
    \/ __mutation
    \/ run_next_generation

LiveSpec ==
    /\ LiveInit
    /\ [][LiveNext]_vars
    /\ WF_vars(LiveNext)
    /\ SF_vars(__mutation /\ offspring' # offspring)

(***************************************************************************)
(* Properties.                                                             *)
(***************************************************************************)
\* Every chromosome the object holds: the population, the parent pool, the
\* offspring buffer and the best solution.
held_chromosomes ==
    Elems(population) \cup Elems(parents) \cup Elems(offspring) \cup Elems(best_solution)

job_segment(chromosome) == Slice(chromosome, 0, number_of_jobs)
vehicle_segment(chromosome) == Slice(chromosome, number_of_jobs, Len(chromosome))

count(s, x) == Cardinality({k \in 1..Len(s) : s[k] = x})

\* C1: in every state of the run, the first J genes of every chromosome of
\* the population, of the parent pool and of the offspring are a permutation
\* of all job identifiers: each job id exactly once, none missing.
PermutationInvariant ==
    \A chromosome \in held_chromosomes :
        /\ Len(chromosome) = genes
        /\ \A id \in DOMAIN jobs : count(job_segment(chromosome), id) = 1
        /\ Elems(job_segment(chromosome)) \subseteq DOMAIN jobs

\* C1 witness: with two vehicles, crossover and mutation have produced an
\* offspring whose job order is that of neither parent it was built from.
PermutationWitness ==
    /\ pc = "update"
    /\ generation >= 1
    /\ number_of_vehicles >= 2
    /\ number_of_jobs >= 2
    /\ job_segment(offspring[1]) # job_segment(parents[1])
    /\ job_segment(offspring[1]) # job_segment(parents[2])

\* C2: in every state of the run, the last V genes of every chromosome and
\* every offspring are non-negative and sum to the job count J.
SegmentSumInvariant ==
    \A chromosome \in held_chromosomes :
        /\ Len(vehicle_segment(chromosome)) = number_of_vehicles
        /\ \A k \in 1..Len(vehicle_segment(chromosome)) : vehicle_segment(chromosome)[k] >= 0
        /\ SumSeq(vehicle_segment(chromosome)) = number_of_jobs

\* C2 witness: after crossover and mutation, an offspring whose route
\* lengths are not those of its first parent and that uses both vehicles.
SegmentSumWitness ==
    /\ pc = "update"
    /\ generation >= 1
    /\ number_of_vehicles >= 2
    /\ vehicle_segment(offspring[1]) # vehicle_segment(parents[1])
    /\ \A k \in 1..number_of_vehicles : vehicle_segment(offspring[1])[k] > 0

\* C3: the offspring construct_offspring returns for vehicle r, decoded with
\* its own vehicle segment, has parent2's route of vehicle r as its route
\* of vehicle r.
CrossoverFidelity ==
    pc = "mutation" =>
        map_chromosome_to_routes(offspring[1], number_of_jobs)[random_vehicle + 1]
            = map_chromosome_to_routes(parents[2], number_of_jobs)[random_vehicle + 1]

\* The route of vehicle i (0-based) of a chromosome, its locations, and its
\* plain cost: the travel along the locations plus the service of its jobs.
route_of(chromosome, i) ==
    LET before == SumSeq(SubSeq(vehicle_segment(chromosome), 1, i))
    IN SubSeq(chromosome, before + 1, before + vehicle_segment(chromosome)[i + 1])

travel_cost(chromosome, i) ==
    LET route == route_of(chromosome, i)
        at(k) == IF k = 0 THEN vehicles[i + 1].start_index ELSE jobs[route[k]].location_index
    IN SumSeq([k \in 1..Len(route) |-> matrix[at(k - 1)][at(k)]])

service_cost(chromosome, i) ==
    LET route == route_of(chromosome, i)
    IN SumSeq([k \in 1..Len(route) |-> jobs[route[k]].service])

plain_cost(chromosome, i) == travel_cost(chromosome, i) + service_cost(chromosome, i)

\* The number of jobs of the route at which the running demand is above
\* the vehicle's capacity.
exceedances(chromosome, i) ==
    LET route == route_of(chromosome, i)
    IN Cardinality({k \in 1..Len(route) :
           SumSeq([m \in 1..k |-> jobs[route[m]].delivery]) > vehicles[i + 1].capacity})

\* C4 as claimed: the output document reports each route's final cost of
\* the fitness evaluator (penalty included) and their sum.
OutputReportsFinalCost ==
    pc = "done" =>
        /\ \A i \in 0..(number_of_vehicles - 1) :
              json_data.routes[vehicles[i + 1].id].delivery_duration
                  = route_final_cost(vehicles, jobs, best_solution[1], i)
        /\ json_data.total_delivery_duration = chromosome_cost(vehicles, jobs, best_solution[1])

\* C4 as amended: the output document reports each route's jobs and its
\* plain travel plus service cost, without the penalty, and the sum of
\* these; the evaluator's final cost is that cost times 1 + 1000 k for the
\* k exceedances of the route.
OutputReportsPlainCost ==
    pc = "done" =>
        /\ DOMAIN json_data.routes = {vehicles[k].id : k \in 1..number_of_vehicles}
        /\ \A i \in 0..(number_of_vehicles - 1) :
              LET entry == json_data.routes[vehicles[i + 1].id]
              IN /\ entry.jobs = route_of(best_solution[1], i)
                 /\ entry.delivery_duration = plain_cost(best_solution[1], i)
                 /\ route_final_cost(vehicles, jobs, best_solution[1], i)
                       = entry.delivery_duration * (1 + 1000 * exceedances(best_solution[1], i))
        /\ json_data.total_delivery_duration
              = SumSeq([k \in 1..number_of_vehicles |-> plain_cost(best_solution[1], k - 1)])

\* C4 witness: the document of a best solution with a route over capacity,
\* a service time and a non-zero plain cost.
OutputWitness ==
    /\ pc = "done"
    /\ \E i \in 0..(number_of_vehicles - 1) :
          /\ exceedances(best_solution[1], i) >= 1
          /\ service_cost(best_solution[1], i) > 0
          /\ travel_cost(best_solution[1], i) > 0
          /\ json_data.routes[vehicles[i + 1].id].delivery_duration
                < route_final_cost(vehicles, jobs, best_solution[1], i)

\* C5: a route whose running demand exceeds the capacity at some job has a
\* final cost strictly above its plain cost; a route that never exceeds it
\* has exactly its plain cost.
PenaltyAmplification ==
    \A k \in 1..Len(population) : \A i \in 0..(number_of_vehicles - 1) :
        vehicle_segment(population[k])[i + 1] > 0 =>
            IF exceedances(population[k], i) >= 1
            THEN route_final_cost(vehicles, jobs, population[k], i) > plain_cost(population[k], i)
            ELSE route_final_cost(vehicles, jobs, population[k], i) = plain_cost(population[k], i)

\* C6: for every instance with at least one job and one vehicle, no step of
\* run() fails: the run goes through its generations to the serializer.
RunNeverFails == pc # "failed"

\* Slot 0 of the population decodes to the route [101, 102] of cost 2.
SlotZeroOptimal ==
    /\ map_chromosome_to_routes(population[1], number_of_jobs) = <<(<<101, 102>>)>>
    /\ chromosome_cost(vehicles, jobs, population[1]) = 2

SelectionOrdering ==
    pc \in {"crossover", "mutation", "update"} =>
        /\ Len(parents) = mating_pool_size
        /\ \A k \in 1..(Len(parents) - 1) :
              chromosome_cost(vehicles, jobs, parents[k]) <= chromosome_cost(vehicles, jobs, parents[k + 1])
        /\ \A chromosome \in Elems(parents) \cup Elems(population) :
              /\ count(parents, chromosome) <= count(population, chromosome)
              /\ count(parents, chromosome) < count(population, chromosome) =>
                    \A k \in 1..Len(parents) :
                        chromosome_cost(vehicles, jobs, parents[k])
                            <= chromosome_cost(vehicles, jobs, chromosome)

\* C8 witness: a selection that reordered the population, with parents of
\* different cost and a costlier chromosome left out.
SelectionWitness ==
    /\ pc = "crossover"
    /\ parents[1] # population[1]
    /\ chromosome_cost(vehicles, jobs, parents[1])
          < chromosome_cost(vehicles, jobs, parents[mating_pool_size])
    /\ \E k \in 1..chromosomes :
          chromosome_cost(vehicles, jobs, population[k])
              > chromosome_cost(vehicles, jobs, parents[mating_pool_size])

\* C9: the chromosome handed to the serializer is slot 0 of the final
\* population, the best parent of the last selection: no chromosome of the
\* population evaluated in the last generation costs less.
BestIsSlotZero ==
    pc = "done" =>
        /\ best_solution = <<population[1]>>
        /\ population[1] = parents[1]
        /\ Len(fitness) = chromosomes
        /\ \A k \in 1..Len(fitness) :
              chromosome_cost(vehicles, jobs, best_solution[1]) <= fitness[k]
        /\ \E k \in 1..Len(fitness) :
              chromosome_cost(vehicles, jobs, best_solution[1]) = fitness[k]

\* C9 witness: slot 0 is handed over although an offspring of the last
\* generation, in a later slot, costs less.
BestIsSlotZeroWitness ==
    /\ pc = "done"
    /\ \E k \in (mating_pool_size + 1)..chromosomes :
          chromosome_cost(vehicles, jobs, population[k])
              < chromosome_cost(vehicles, jobs, best_solution[1])

min_of(costs) == CHOOSE c \in Elems(costs) : \A d \in Elems(costs) : c <= d

====
